---- MODULE Spec2Model ----
(***************************************************************************)
(* A model of the duplicate-detection core of Travis-Britz/dedup:          *)
(*   - dup.IndexesContext, the pairwise scan over one size bucket with its *)
(*     compacted triangular skip matrix, followed by the handler loop of   *)
(*     run() over the indexes it returned            (specification Spec)  *)
(*   - dup.Offset, the slot function of the skip matrix                    *)
(*                                             (specification SpecOffset)  *)
(*   - dup.equalFile, the streaming comparison of two files under a        *)
(*     cancellable context                      (specification SpecEqual)  *)
(* The three machines share one set of variables; each specification runs  *)
(* one machine and leaves the variables of the other two at rest.          *)
(***************************************************************************)
EXTENDS Integers, Sequences, FiniteSets, TLC

VARIABLES
    \* ---- IndexesContext and run() ----
    n,            \* len(input)
    row, col,     \* the loop variables of the scan: the next pair to look at
    skipMatrix,   \* []bool of length (n*n-n)/2, indexed from 0
    duplicates,   \* the slice being built and returned
    pc,           \* "scan" | "handle" | "done" | "crashed"
    calls,        \* history: every compareFn call <<row, col, outcome>> in order
    log,          \* the messages of the "comparison failure" records written
    hi,           \* position of run()'s range loop over dups (1-based)
    handled,      \* the indexes handed to config.H.handle, in order
    execute,      \* config.Execute, the -x flag
    removed,      \* the indexes of the files os.Remove has removed
    printed,      \* the indexes of the files printed to stdout, in order
    deleteCalls,  \* history: the indexes deleteHandler was called with
    handlerLog,   \* the files of the "handler error" records written
    \* ---- Offset, visited in the scan's order ----
    on, orow, ocol, \* n and the pair to visit next
    oslot,        \* the slot of the pair visited last (-1 before the first)
    ocount,       \* number of pairs visited
    oslots,       \* the slots produced so far
    opc,          \* "idle" | "visit" | "end"
    \* ---- equalFile ----
    fa, fb,       \* the contents of f1 and f2
    posA, posB,   \* bytes consumed from br1 and br2
    n1, err1,     \* result of br1.Read(buf1)
    n2, err2,     \* result of io.ReadFull(br2, buf2[:n1])
    cancelled,    \* ctx.Done() is closed
    epc,          \* "idle" | "select" | "read1" | "read2" | "compare" | "ret"
    result,       \* the returned pair [eq |-> BOOLEAN, err |-> error]
    seenCancel,   \* history: ctx was already cancelled at the last select
    readsAfterCancel, \* history: reads of each stream started after the cancellation
    cancelAt,     \* history: where equalFile stood when ctx was cancelled
    fnRet,        \* what FilenameFn returns: [sel |-> selection, err |-> error]
    \* ---- SplitFileBaseName and selectDup ----
    sbase, spieces, sext, \* the file name given to SplitFileBaseName, in parts
    sres,         \* its result [prefix, counter, ext]
    spc,          \* "idle" | "call" | "ret"
    sfi1, sfi2,   \* the os.FileInfo of the two files given to selectDup
    sdRet,        \* its result [sel |-> selection, err |-> error]
    sdpc,         \* "idle" | "call" | "ret"
    \* ---- run(): compileDirResults, listDirFiles, stageBuckets ----
    listing,      \* per root, the fileResults its walk meets, in walk order
    wpos,         \* per root, how many of them walkDirFn has passed
    wstate,       \* per root, the walker: "new" | "walking" | "done"
    fstate,       \* per root, the forwarder: "new" | "recv" | "send" | "done"
    fheld,        \* per root, the fileResult the forwarder is sending
    cstate,       \* the fan-in closer: "idle" | "spawn" | "wait" | "closed"
    fr,           \* the buffered channel fr, closed when cstate = "closed"
    buckets,      \* stageBuckets' map from size to paths
    estate,       \* the bucket emitter: "none" | "emit" | "done"
    toEmit,       \* the keys the emitter's range has not reached
    rstate,       \* run(): "idle" | "stage" | "recv" | "process" | "returned"
    sizeBucket,   \* the group run() is processing, with its map key
    ctxDone,      \* cancel() has been called
    emitted,      \* history: how many groups the emitter has sent
    \* ---- IndexesContext with FilenameFn as compareFn ----
    items         \* the files behind the items of the group, by index

hVars   == <<execute, removed, printed, deleteCalls, handlerLog>>
idxVars == <<n, row, col, skipMatrix, duplicates, pc, calls, log, hi, handled,
             hVars>>
offVars == <<on, orow, ocol, oslot, ocount, oslots, opc>>
eqVars  == <<fa, fb, posA, posB, n1, err1, n2, err2, cancelled, epc, result,
             seenCancel, readsAfterCancel, cancelAt, fnRet>>
selVars == <<sbase, spieces, sext, sres, spc, sfi1, sfi2, sdRet, sdpc>>
pipeVars == <<listing, wpos, wstate, fstate, fheld, cstate, fr, buckets,
              estate, toEmit, rstate, sizeBucket, ctxDone, emitted>>
grpVars == <<items>>
vars    == <<idxVars, offVars, eqVars, selVars, pipeVars, grpVars>>

\* what the actions of one machine leave alone
notIdx == <<offVars, eqVars, selVars, pipeVars, grpVars>>
notOff == <<idxVars, eqVars, selVars, pipeVars, grpVars>>
notEq  == <<idxVars, offVars, selVars, pipeVars, grpVars>>
notSel == <<idxVars, offVars, eqVars, pipeVars, grpVars>>
notPipe == <<idxVars, offVars, eqVars, selVars, grpVars>>

(***************************************************************************)
(* Bounds of the model.                                                    *)
(***************************************************************************)
MaxN == 4
MaxStack == 3
MaxOffsetN == 50
MaxLen == 3
ChunkSize == 2
MaxFileSize == 2
IntBits == 5
MaxPieces == 2
MaxFiles == 2
FrCapacity == 1
MaxGroup == 3

\* stageBuckets emits a bucket only when len(v) > 1
MinN == 2
MinSize == 2048

Min(a, b) == IF a < b THEN a ELSE b

Range(s) == {s[i] : i \in 1..Len(s)}

(***************************************************************************)
(* selection and errors                                                    *)
(***************************************************************************)
None == "None"
Left == "Left"
Right == "Right"

Nil == "nil"
ErrCompare == "comparison error"      \* any error whose Error() returns
ErrImpossible == "errImpossible"      \* selectDup's errImpossible{...}
StackOverflow == "fatal error: stack overflow"

(***************************************************************************)
(* dup.Offset: the slot of pair (r, c), r < c < k, in the flat skip matrix *)
(***************************************************************************)
\* the slot function without the "+ row" of its correction term
OffsetDroppedRow(k, r, c) ==
    (k * r + c) - ((((r + 1) * (r + 1) - (r + 1)) \div 2) + 1)

Offset(k, r, c) ==
    (k * r + c) - ((((r + 1) * (r + 1) - (r + 1)) \div 2) + r + 1)

\* size := (n*n - n) / 2 ; skipMatrix := make([]bool, size)
MatrixSize(k) == (k * k - k) \div 2

NewSkipMatrix(k) == [i \in 0..(MatrixSize(k) - 1) |-> FALSE]

\* the marking loop started one column late
MarkRowLate(m, k, r, from) ==
    [i \in DOMAIN m |->
        m[i] \/ (\E c \in (from + 1)..(k - 1) : i = Offset(k, r, c))]

\* for c := from; c < n; c++ { skipMatrix[Offset(n, r, c)] = true }
MarkRow(m, k, r, from) ==
    [i \in DOMAIN m |-> m[i] \/ (\E c \in from..(k - 1) : i = Offset(k, r, c))]

\* Left that marks nothing
MarkLeftNothing(m, k, r, c) == m

\* case Left: the slots (row, c), c > col
MarkLeft(m, k, r, c) == MarkRow(m, k, r, c + 1)

\* Right that marks the rest of row's slots, as Left does
MarkRightOfRow(m, k, r, c) == MarkRow(m, k, r, c + 1)

\* Right that marks nothing
MarkRightNothing(m, k, r, c) == m

\* case Right: the slots (col, c), c > col
MarkRight(m, k, r, c) == MarkRow(m, k, c, c + 1)

\* the index put in front instead of at the end
PrependDup(d, i) == <<i>> \o d

\* duplicates = append(duplicates, i)
AppendDup(d, i) == Append(d, i)

(***************************************************************************)
(* selectDup's defensive preconditions on the two os.FileInfo values, and  *)
(* errImpossible.Error(), which calls itself instead of the wrapped error. *)
(***************************************************************************)
FileInfos == [size : 0..MaxFileSize, dir : BOOLEAN, symlink : BOOLEAN]

selectDupGuard(fi1, fi2) ==
    IF fi1.size # fi2.size THEN ErrImpossible
    ELSE IF fi1.size = 0 \/ fi2.size = 0 THEN ErrImpossible
    ELSE IF fi1.dir \/ fi2.dir THEN ErrImpossible
    ELSE IF fi1.symlink \/ fi2.symlink THEN ErrImpossible
    ELSE Nil

\* func (e errImpossible) Error() string { return "..." + e.Error() }
\* every frame calls Error() on the same receiver; the goroutine's stack is
\* finite (MaxStack frames here), and exceeding it is fatal.
RECURSIVE errImpossibleError(_)
errImpossibleError(depth) ==
    IF depth >= MaxStack THEN StackOverflow
    ELSE errImpossibleError(depth + 1)

\* err.Error(), as slog's handler calls it to format the "err" attribute
ErrorString(e) ==
    IF e = ErrImpossible THEN errImpossibleError(0) ELSE e

\* the errors compareFn can return: an ordinary one (open, read, cancelled,
\* same item) or an errImpossible out of selectDup
CompareErrors ==
    {ErrCompare} \cup
    ({selectDupGuard(f1, f2) : f1 \in FileInfos, f2 \in FileInfos} \ {Nil})

(***************************************************************************)
(* IndexesContext: one action per iteration of the inner loop.             *)
(***************************************************************************)
InitIndexes ==
    /\ n \in MinN..MaxN
    /\ row = 0
    /\ col = 1
    /\ skipMatrix = NewSkipMatrix(n)
    /\ duplicates = <<>>
    /\ pc = "scan"
    /\ calls = <<>>
    /\ log = <<>>
    /\ hi = 1
    /\ handled = <<>>
    /\ execute \in BOOLEAN
    /\ removed = {}
    /\ printed = <<>>
    /\ deleteCalls = <<>>
    /\ handlerLog = <<>>

IdleIndexes ==
    /\ n = 0 /\ row = 0 /\ col = 0
    /\ skipMatrix = <<>> /\ duplicates = <<>>
    /\ pc = "idle" /\ calls = <<>> /\ log = <<>>
    /\ hi = 1 /\ handled = <<>>
    /\ execute = FALSE /\ removed = {} /\ printed = <<>>
    /\ deleteCalls = <<>> /\ handlerLog = <<>>

\* col++ ; at the end of the row, row++ and col = row + 1 ; after the last
\* row the function returns and run() starts ranging over dups
ContinueTo ==
    IF col + 1 < n
    THEN [row |-> row, col |-> col + 1, pc |-> "scan"]
    ELSE IF row + 1 < n - 1
         THEN [row |-> row + 1, col |-> row + 2, pc |-> "scan"]
         ELSE [row |-> row + 1, col |-> col + 1, pc |-> "handle"]

Continue ==
    /\ row' = ContinueTo.row
    /\ col' = ContinueTo.col
    /\ pc' = ContinueTo.pc

Skipped == skipMatrix[Offset(n, row, col)]

\* if skipMatrix[Offset(n, row, col)] { continue }
SkipComparison ==
    /\ pc = "scan"
    /\ Skipped
    /\ Continue
    /\ UNCHANGED <<n, skipMatrix, duplicates, calls, log, hi, handled, hVars,
                   notIdx>>

\* compareFn returned an error: slog.Error formats it with err.Error(),
\* then continue
CompareError ==
    /\ pc = "scan"
    /\ ~Skipped
    /\ \E e \in CompareErrors :
          /\ calls' = Append(calls, <<row, col, e>>)
          /\ IF ErrorString(e) = StackOverflow
             THEN /\ pc' = "crashed"
                  /\ UNCHANGED <<row, col, log>>
             ELSE /\ log' = Append(log, ErrorString(e))
                  /\ Continue
    /\ UNCHANGED <<n, skipMatrix, duplicates, hi, handled, hVars, notIdx>>

\* case None: continue
CompareNone ==
    /\ pc = "scan"
    /\ ~Skipped
    /\ calls' = Append(calls, <<row, col, None>>)
    /\ Continue
    /\ UNCHANGED <<n, skipMatrix, duplicates, log, hi, handled, hVars, notIdx>>

\* case Left: mark the rest of row's slots, append row
CompareLeft ==
    /\ pc = "scan"
    /\ ~Skipped
    /\ calls' = Append(calls, <<row, col, Left>>)
    /\ skipMatrix' = MarkLeft(skipMatrix, n, row, col)
    /\ duplicates' = AppendDup(duplicates, row)
    /\ Continue
    /\ UNCHANGED <<n, log, hi, handled, hVars, notIdx>>

\* case Right: mark col's own row of slots, append col
CompareRight ==
    /\ pc = "scan"
    /\ ~Skipped
    /\ calls' = Append(calls, <<row, col, Right>>)
    /\ skipMatrix' = MarkRight(skipMatrix, n, row, col)
    /\ duplicates' = AppendDup(duplicates, col)
    /\ Continue
    /\ UNCHANGED <<n, log, hi, handled, hVars, notIdx>>

(***************************************************************************)
(* run(): for _, i := range dups { config.H.handle(sizeBucket[i]) }        *)
(* A handler error is logged and the loop goes on.                         *)
(***************************************************************************)
\* main(): if !config.Execute { config.H = dryRun(config.H) }
\* (config.H starts as deleteHandler)
DeleteHandlerAlways == "deleteHandler"

Handler == IF ~execute THEN "dryRun" ELSE "deleteHandler"

Handle ==
    /\ pc = "handle"
    /\ hi <= Len(duplicates)
    /\ handled' = Append(handled, duplicates[hi])
    /\ IF Handler = "dryRun"
       THEN \* fmt.Println(file); return nil
            /\ printed' = Append(printed, duplicates[hi])
            /\ UNCHANGED <<removed, deleteCalls, handlerLog>>
       ELSE \* return os.Remove(file): an error when the file is gone
            /\ deleteCalls' = Append(deleteCalls, duplicates[hi])
            /\ removed' = removed \cup {duplicates[hi]}
            /\ handlerLog' = IF duplicates[hi] \in removed
                             THEN Append(handlerLog, duplicates[hi])
                             ELSE handlerLog
            /\ UNCHANGED printed
    /\ hi' = hi + 1
    /\ UNCHANGED <<n, row, col, skipMatrix, duplicates, pc, calls, log, execute,
                   notIdx>>

Finish ==
    /\ pc = "handle"
    /\ hi > Len(duplicates)
    /\ pc' = "done"
    /\ UNCHANGED <<n, row, col, skipMatrix, duplicates, calls, log, hi, handled,
                   hVars, notIdx>>

(***************************************************************************)
(* Offset over the pairs of one n, visited in the order of the scan's two  *)
(* loops (row from 0 to n-2, col from row+1 to n-1).                       *)
(***************************************************************************)
InitOffset ==
    /\ on \in MinN..MaxOffsetN
    /\ orow = 0
    /\ ocol = 1
    /\ oslot = -1
    /\ ocount = 0
    /\ oslots = {}
    /\ opc = "visit"

IdleOffset ==
    /\ on = 0 /\ orow = 0 /\ ocol = 0 /\ oslot = -1
    /\ ocount = 0 /\ oslots = {} /\ opc = "idle"

VisitPair ==
    /\ opc = "visit"
    /\ oslot' = Offset(on, orow, ocol)
    /\ ocount' = ocount + 1
    /\ oslots' = oslots \cup {oslot'}
    /\ IF ocol + 1 < on
       THEN /\ orow' = orow /\ ocol' = ocol + 1 /\ opc' = "visit"
       ELSE IF orow + 1 < on - 1
            THEN /\ orow' = orow + 1 /\ ocol' = orow + 2 /\ opc' = "visit"
            ELSE /\ orow' = orow + 1 /\ ocol' = ocol + 1 /\ opc' = "end"
    /\ UNCHANGED <<on, notOff>>

(***************************************************************************)
(* equalFile(ctx, f1, f2)                                                  *)
(***************************************************************************)
Bytes == {0, 1}

Contents == UNION {[1..k -> Bytes] : k \in 0..MaxLen}

EOF == "EOF"
ErrUnexpectedEOF == "unexpected EOF"
ErrIO == "read error"
ErrCanceled == "context canceled"
ErrSizeMismatch == "read size mismatch"
ErrReader == "reader error"
Continues == [eq |-> FALSE, err |-> "continue"]

\* the body of the loop after the two reads: chunk1 = buf1[:n1] and
\* chunk2 = buf2[:n2]; the value returned, or Continues for another round
equalFileStep(rn1, rerr1, rn2, rerr2, chunk1, chunk2) ==
    IF rn1 # rn2 THEN [eq |-> FALSE, err |-> ErrSizeMismatch]
    ELSE IF chunk1 # chunk2 THEN [eq |-> FALSE, err |-> Nil]
    ELSE IF rerr1 = EOF /\ rn1 = 0 /\ rn2 = 0 /\ rerr2 = Nil
         THEN [eq |-> TRUE, err |-> Nil]
    ELSE IF rerr1 = EOF /\ rerr2 = EOF THEN [eq |-> TRUE, err |-> Nil]
    ELSE IF rerr1 # Nil \/ rerr2 # Nil THEN [eq |-> FALSE, err |-> ErrReader]
    ELSE Continues

NoResult == [eq |-> FALSE, err |-> "pending"]

NoReturn == [sel |-> None, err |-> "pending"]

\* what selectDup can return: a selection and no error, or None and its error
SelectDupReturns ==
    {[sel |-> x, err |-> Nil] : x \in {Left, Right}}
        \cup {[sel |-> None, err |-> ErrImpossible]}

\* FilenameFn that reports "not equal" without the error
FilenameFnDropsError(res, sd) ==
    IF ~res.eq \/ res.err # Nil THEN [sel |-> None, err |-> Nil] ELSE sd

\* eq, err := equalFile(ctx, f1, f2)
\* if !eq || err != nil { return None, err } ; return selectDup(f1, f2)
FilenameFn(res, sd) ==
    IF ~res.eq \/ res.err # Nil THEN [sel |-> None, err |-> res.err] ELSE sd

InitEqual ==
    /\ fa \in Contents
    /\ fb \in Contents
    /\ posA = 0 /\ posB = 0
    /\ n1 = 0 /\ err1 = Nil
    /\ n2 = 0 /\ err2 = Nil
    /\ cancelled \in BOOLEAN
    /\ epc = "select"
    /\ result = NoResult
    /\ seenCancel = FALSE
    /\ readsAfterCancel = [a |-> 0, b |-> 0]
    /\ cancelAt = IF cancelled THEN "beforeFirstCheck" ELSE "never"
    /\ fnRet = NoReturn

IdleEqual ==
    /\ fa = <<>> /\ fb = <<>>
    /\ posA = 0 /\ posB = 0
    /\ n1 = 0 /\ err1 = Nil
    /\ n2 = 0 /\ err2 = Nil
    /\ cancelled = FALSE
    /\ epc = "idle"
    /\ result = NoResult
    /\ seenCancel = FALSE
    /\ readsAfterCancel = [a |-> 0, b |-> 0]
    /\ cancelAt = "never"
    /\ fnRet = NoReturn

\* cancel(): the interrupt goroutine of run(), at any moment of the comparison
Cancel ==
    /\ epc \in {"select", "read1", "read2", "compare"}
    /\ ~cancelled
    /\ cancelled' = TRUE
    /\ cancelAt' = IF posA = 0 /\ epc = "select" THEN "beforeFirstCheck"
                   ELSE IF posA = 0 /\ epc = "read1" THEN "beforeFirstRead"
                   ELSE "later"
    /\ UNCHANGED <<fa, fb, posA, posB, n1, err1, n2, err2, epc, result,
                   seenCancel, readsAfterCancel, fnRet, notEq>>

\* the loop without its select: ctx is never looked at
CheckCtxNever ==
    /\ epc = "select"
    /\ seenCancel' = FALSE
    /\ epc' = "read1"
    /\ UNCHANGED <<fa, fb, posA, posB, n1, err1, n2, err2, cancelled, result,
                   readsAfterCancel, cancelAt, fnRet, notEq>>

\* select { case <-ctx.Done(): return false, ctx.Err() ; default: }
CheckCtx ==
    /\ epc = "select"
    /\ seenCancel' = cancelled
    /\ IF cancelled
       THEN /\ result' = [eq |-> FALSE, err |-> ErrCanceled]
            /\ epc' = "ret"
       ELSE /\ epc' = "read1"
            /\ UNCHANGED result
    /\ UNCHANGED <<fa, fb, posA, posB, n1, err1, n2, err2, cancelled,
                   readsAfterCancel, cancelAt, fnRet, notEq>>

\* n1, err1 := br1.Read(buf1): some bytes and no error, or no byte and the
\* reader's error (io.EOF at the end of the file)
ReadA ==
    /\ epc = "read1"
    /\ \/ /\ posA < Len(fa)
          /\ \E k \in 1..Min(ChunkSize, Len(fa) - posA) :
                /\ n1' = k
                /\ posA' = posA + k
          /\ err1' = Nil
       \/ /\ posA = Len(fa)
          /\ n1' = 0 /\ err1' = EOF
          /\ UNCHANGED posA
       \/ /\ n1' = 0 /\ err1' = ErrIO
          /\ UNCHANGED posA
    /\ readsAfterCancel' =
          IF cancelled
          THEN [readsAfterCancel EXCEPT !.a = @ + 1]
          ELSE readsAfterCancel
    /\ epc' = "read2"
    /\ UNCHANGED <<fa, fb, posB, n2, err2, cancelled, result, seenCancel,
                   cancelAt, fnRet, notEq>>

\* n2, err2 := io.ReadFull(br2, buf2[:n1])
ReadB ==
    /\ epc = "read2"
    /\ \/ /\ n1 = 0
          /\ n2' = 0 /\ err2' = Nil
          /\ UNCHANGED posB
       \/ /\ n1 > 0 /\ Len(fb) - posB >= n1
          /\ n2' = n1 /\ err2' = Nil
          /\ posB' = posB + n1
       \/ /\ n1 > 0 /\ Len(fb) - posB < n1 /\ Len(fb) - posB > 0
          /\ n2' = Len(fb) - posB /\ err2' = ErrUnexpectedEOF
          /\ posB' = Len(fb)
       \/ /\ n1 > 0 /\ Len(fb) = posB
          /\ n2' = 0 /\ err2' = EOF
          /\ UNCHANGED posB
       \/ /\ n1 > 0
          /\ \E k \in 0..Min(n1 - 1, Len(fb) - posB) :
                /\ n2' = k
                /\ posB' = posB + k
          /\ err2' = ErrIO
    /\ readsAfterCancel' =
          IF cancelled /\ n1 > 0
          THEN [readsAfterCancel EXCEPT !.b = @ + 1]
          ELSE readsAfterCancel
    /\ epc' = "compare"
    /\ UNCHANGED <<fa, fb, posA, n1, err1, cancelled, result, seenCancel,
                   cancelAt, fnRet, notEq>>

\* the comparisons of the loop body, and either a return or the next round
CompareChunks ==
    /\ epc = "compare"
    /\ LET r == equalFileStep(n1, err1, n2, err2,
                              SubSeq(fa, posA - n1 + 1, posA),
                              SubSeq(fb, posB - n2 + 1, posB))
       IN  IF r = Continues
           THEN /\ epc' = "select"
                /\ UNCHANGED result
           ELSE /\ epc' = "ret"
                /\ result' = r
    /\ UNCHANGED <<fa, fb, posA, posB, n1, err1, n2, err2, cancelled,
                   seenCancel, readsAfterCancel, cancelAt, fnRet, notEq>>

\* FilenameFn returns what equalFile and selectDup gave it
FilenameFnReturn ==
    /\ epc = "ret"
    /\ \E sd \in SelectDupReturns : fnRet' = FilenameFn(result, sd)
    /\ epc' = "done"
    /\ UNCHANGED <<fa, fb, posA, posB, n1, err1, n2, err2, cancelled, result,
                   seenCancel, readsAfterCancel, cancelAt, notEq>>

(***************************************************************************)
(* File names are sequences of one-character strings.                      *)
(***************************************************************************)
Digits == {"0", "1", "2", "3", "4", "5", "6", "7", "8", "9"}

DigitValue(ch) ==
    CASE ch = "0" -> 0 [] ch = "1" -> 1 [] ch = "2" -> 2 [] ch = "3" -> 3
      [] ch = "4" -> 4 [] ch = "5" -> 5 [] ch = "6" -> 6 [] ch = "7" -> 7
      [] ch = "8" -> 8 [] ch = "9" -> 9

\* int is IntBits wide: the largest int, and + with its wrap-around
MaxInt == 2 ^ (IntBits - 1) - 1

AddInt(a, b) ==
    ((a + b + 2 ^ (IntBits - 1)) % (2 ^ IntBits)) - 2 ^ (IntBits - 1)

HasSuffix(str, suf) ==
    /\ Len(str) >= Len(suf)
    /\ SubSeq(str, Len(str) - Len(suf) + 1, Len(str)) = suf

DropLast(str, k) == SubSeq(str, 1, Len(str) - k)

RECURSIVE Concat(_)
Concat(strs) == IF strs = <<>> THEN <<>> ELSE Head(strs) \o Concat(Tail(strs))

RECURSIVE DecimalValue(_)
DecimalValue(ds) ==
    IF ds = <<>> THEN 0
    ELSE 10 * DecimalValue(DropLast(ds, 1)) + DigitValue(ds[Len(ds)])

ErrSyntax == "strconv: invalid syntax"
ErrRange == "strconv: value out of range"

\* strconv.Atoi: an optional sign and decimal digits; out of range, the
\* nearest int and ErrRange; anything else, 0 and ErrSyntax
Atoi(str) ==
    LET signed == str # <<>> /\ str[1] \in {"+", "-"}
        neg == str # <<>> /\ str[1] = "-"
        body == IF signed THEN Tail(str) ELSE str
    IN  IF body = <<>> \/ (\E i \in 1..Len(body) : body[i] \notin Digits)
        THEN [val |-> 0, err |-> ErrSyntax]
        ELSE LET v == DecimalValue(body)
             IN  IF ~neg /\ v > MaxInt
                 THEN [val |-> MaxInt, err |-> ErrRange]
                 ELSE IF neg /\ v > MaxInt + 1
                 THEN [val |-> -(MaxInt + 1), err |-> ErrRange]
                 ELSE [val |-> IF neg THEN -v ELSE v, err |-> Nil]

\* filepath.Ext: from the last dot of the last path element, or empty
RECURSIVE Ext(_)
Ext(name) ==
    IF name = <<>> \/ name[Len(name)] = "/" THEN <<>>
    ELSE IF name[Len(name)] = "." THEN <<".">>
    ELSE LET e == Ext(DropLast(name, 1))
         IN  IF e = <<>> THEN <<>> ELSE Append(e, name[Len(name)])

RECURSIVE TrailingDigits(_)
TrailingDigits(str) ==
    IF str = <<>> \/ str[Len(str)] \notin Digits THEN 0
    ELSE 1 + TrailingDigits(DropLast(str, 1))

NoMatch == [ok |-> FALSE, len |-> 0, digits |-> <<>>]

CopyLiteral == <<" ", "-", " ", "C", "o", "p", "y">>

\* chromePattern = ` \((\d+)\)$` : the match's length and its submatch
chromePattern(str) ==
    LET k == TrailingDigits(DropLast(str, 1))
    IN  IF /\ str # <<>>
           /\ str[Len(str)] = ")"
           /\ k >= 1
           /\ HasSuffix(DropLast(str, k + 1), <<" ", "(">>)
        THEN [ok |-> TRUE, len |-> k + 3,
              digits |-> SubSeq(str, Len(str) - k, Len(str) - 1)]
        ELSE NoMatch

\* windowsPattern = ` - Copy(?: \((\d+)\))?$`
windowsPattern(str) ==
    LET c == chromePattern(str)
    IN  IF HasSuffix(str, CopyLiteral)
        THEN [ok |-> TRUE, len |-> Len(CopyLiteral), digits |-> <<>>]
        ELSE IF c.ok /\ HasSuffix(DropLast(str, c.len), CopyLiteral)
        THEN [ok |-> TRUE, len |-> Len(CopyLiteral) + c.len, digits |-> c.digits]
        ELSE NoMatch

\* switch on n after a windows match: n == 0, n == 1 (counts 2), default
\* (n < 0 panics; the submatch holds digits only, so Atoi never gives it)
WindowsIncrement(nn) == IF nn = 0 THEN 1 ELSE IF nn = 1 THEN 2 ELSE nn

\* switch on n after a chrome match: n == 0, default
ChromeIncrement(nn) == IF nn = 0 THEN 1 ELSE nn

\* n, _ := strconv.Atoi(match[1]) : the error is dropped, the value kept
MatchNumber(digits) == Atoi(digits).val

\* the for loop of SplitFileBaseName
RECURSIVE StripSuffixes(_, _)
StripSuffixes(prefix, counter) ==
    LET w == windowsPattern(prefix)
        c == chromePattern(prefix)
    IN  IF w.ok
        THEN StripSuffixes(DropLast(prefix, w.len),
                 AddInt(counter, WindowsIncrement(MatchNumber(w.digits))))
        ELSE IF c.ok
        THEN StripSuffixes(DropLast(prefix, c.len),
                 AddInt(counter, ChromeIncrement(MatchNumber(c.digits))))
        ELSE [prefix |-> prefix, counter |-> counter]

SplitFileBaseName(name) ==
    LET ext == Ext(name)
        r == StripSuffixes(DropLast(name, Len(ext)), 0)
    IN  IF r.prefix = <<>> /\ ext = <<>>
        THEN [prefix |-> name, counter |-> 0, ext |-> <<>>]
        ELSE [prefix |-> r.prefix, counter |-> r.counter, ext |-> ext]

\* func isDigits(s string) bool { _, err := strconv.Atoi(s); return err == nil }
isDigits(str) == Atoi(str).err = Nil

(***************************************************************************)
(* selectDup                                                               *)
(***************************************************************************)
ErrStat == "stat failed"

ModTimes == {0, 1}

selectDup(f1, f2) ==
    LET guard == selectDupGuard(f1, f2)
        s1 == SplitFileBaseName(f1.name)
        s2 == SplitFileBaseName(f2.name)
    IN  IF guard # Nil THEN [sel |-> None, err |-> guard]
        ELSE IF s1.counter > s2.counter THEN [sel |-> Left, err |-> Nil]
        ELSE IF s1.counter < s2.counter THEN [sel |-> Right, err |-> Nil]
        ELSE IF s1.ext # <<>> /\ s2.ext = <<>> THEN [sel |-> Right, err |-> Nil]
        ELSE IF s1.ext = <<>> /\ s2.ext # <<>> THEN [sel |-> Left, err |-> Nil]
        ELSE IF isDigits(s1.prefix) /\ ~isDigits(s2.prefix)
        THEN [sel |-> Left, err |-> Nil]
        ELSE IF ~isDigits(s1.prefix) /\ isDigits(s2.prefix)
        THEN [sel |-> Right, err |-> Nil]
        ELSE IF f1.mtime < f2.mtime THEN [sel |-> Right, err |-> Nil]
        ELSE IF f1.mtime > f2.mtime THEN [sel |-> Left, err |-> Nil]
        ELSE [sel |-> Right, err |-> Nil]

(***************************************************************************)
(* The file names the two functions are run on.  A name is a base, a chain *)
(* of suffix pieces and an extension; a piece is " - Copy", " - Copy (N)", *)
(* " (N)", or a text that neither pattern matches.                         *)
(***************************************************************************)
Bases == {<<>>, <<"a">>, <<"7">>, <<"a", " ", "b">>}

Exts == {<<>>, <<".">>, <<".", "j">>}

DigitTexts == {<<"0">>, <<"1">>, <<"2">>, <<"4">>, <<"9", "9">>}

PlainTexts == {<<"(", "1", ")">>, <<" ", "(", "-", "1", ")">>,
               CopyLiteral \o <<" ", "(", "-", "1", ")">>}

Pieces ==
    {[kind |-> "copy", digits |-> <<>>]}
    \cup [kind : {"copyN", "paren"}, digits : DigitTexts]
    \cup [kind : {"plain"}, digits : PlainTexts]

Paren(ds) == <<" ", "(">> \o ds \o <<")">>

PieceText(p) ==
    CASE p.kind = "copy"  -> CopyLiteral
      [] p.kind = "copyN" -> CopyLiteral \o Paren(p.digits)
      [] p.kind = "paren" -> Paren(p.digits)
      [] p.kind = "plain" -> p.digits

PieceChains == UNION {[1..k -> Pieces] : k \in 0..MaxPieces}

FileName(base, pieces, ext) ==
    base \o Concat([i \in 1..Len(pieces) |-> PieceText(pieces[i])]) \o ext

SelectNames ==
    {<<"a", ".", "j">>, <<"a">>, <<"7", ".", "j">>, <<"7">>,
     <<"-", "7", ".", "j">>, <<"9", "9", ".", "j">>,
     <<"a">> \o Paren(<<"1">>) \o <<".", "j">>,
     <<"a">> \o CopyLiteral \o <<".", "j">>}

SelectFiles ==
    [name : SelectNames, mtime : ModTimes,
     size : 0..MaxFileSize, dir : BOOLEAN, symlink : BOOLEAN]

NoSplit == [prefix |-> <<>>, counter |-> 0, ext |-> <<>>]

IdleSplit ==
    /\ sbase = <<>> /\ spieces = <<>> /\ sext = <<>>
    /\ sres = NoSplit
    /\ spc = "idle"

IdleSelect ==
    /\ sfi1 = NoSplit /\ sfi2 = NoSplit
    /\ sdRet = NoReturn
    /\ sdpc = "idle"

InitSplit ==
    /\ sbase \in Bases
    /\ spieces \in PieceChains
    /\ sext \in Exts
    /\ sres = NoSplit
    /\ spc = "call"

InitSelect ==
    /\ sfi1 \in SelectFiles
    /\ sfi2 \in SelectFiles
    /\ sdRet = NoReturn
    /\ sdpc = "call"

\* one call of SplitFileBaseName
SplitCall ==
    /\ spc = "call"
    /\ sres' = SplitFileBaseName(FileName(sbase, spieces, sext))
    /\ spc' = "ret"
    /\ UNCHANGED <<sbase, spieces, sext, sfi1, sfi2, sdRet, sdpc, notSel>>

\* selectDup when f1.Stat() or f2.Stat() fails
SelectDupStatError ==
    /\ sdpc = "call"
    /\ sdRet' = [sel |-> None, err |-> ErrStat]
    /\ sdpc' = "ret"
    /\ UNCHANGED <<sbase, spieces, sext, sres, spc, sfi1, sfi2, notSel>>

\* selectDup when both Stat calls succeed
SelectDupCall ==
    /\ sdpc = "call"
    /\ sdRet' = selectDup(sfi1, sfi2)
    /\ sdpc' = "ret"
    /\ UNCHANGED <<sbase, spieces, sext, sres, spc, sfi1, sfi2, notSel>>

(***************************************************************************)
(* run(): the walkers of listDirFiles, the forwarders and the closer of    *)
(* compileDirResults, stageBuckets with its emitter, and run()'s loop over *)
(* the groups.  A walk is the sequence of fileResults walkDirFn reaches    *)
(* the select with: directories, symlinks and entries whose Info fails are *)
(* passed over, and an access error ends the walk early.                   *)
(***************************************************************************)
Roots == {"r1", "r2"}

\* the size Info reports for each file
SizeOf ==
    [path \in {"a", "b", "c", "d", "e"} |->
        CASE path \in {"a", "b"} -> MinSize
          [] path \in {"c", "d"} -> MinSize + 1
          [] path = "e" -> MinSize - 1]

Sizes == {SizeOf[path] : path \in DOMAIN SizeOf}

\* the files under each root in lexical order, the order fs.WalkDir
\* reaches them in; file a is under both roots
Tree == [r \in Roots |-> IF r = "r1" THEN <<"a", "c", "e">> ELSE <<"a", "b", "d">>]

\* the walks of root r that meet at most MaxFiles of its files
Listings(r) ==
    {SelectSeq([i \in 1..Len(Tree[r]) |->
                    [path |-> Tree[r][i], size |-> SizeOf[Tree[r][i]]]],
               LAMBDA f : f.path \in chosen) :
        chosen \in {c \in SUBSET Range(Tree[r]) : Cardinality(c) <= MaxFiles}}

NoFile == [path |-> "", size |-> 0]

NoBucket == [size |-> 0, paths |-> <<>>]

ContainsNever(paths, path) == FALSE

\* slices.Contains(buckets[fr.size], fr.path)
Contains(paths, path) == \E i \in 1..Len(paths) : paths[i] = path

WaitNotAtAll == TRUE

\* wg.Wait() returns: every forwarder has called wg.Done()
WaitReturns == \A r \in Roots : fstate[r] = "done"

WalkerNeverSeesDone == FALSE

\* case <-ctx.Done() of the walker's select is ready
WalkerSeesDone == ctxDone

\* the keys of the buckets that pass if len(v) > 1
Emittable(b) == {k \in DOMAIN b : Len(b[k]) > 1}

InitPipe ==
    /\ listing \in [Roots -> UNION {Listings(r) : r \in Roots}]
    /\ \A r \in Roots : listing[r] \in Listings(r)
    /\ wpos = [r \in Roots |-> 0]
    /\ wstate = [r \in Roots |-> "new"]
    /\ fstate = [r \in Roots |-> "new"]
    /\ fheld = [r \in Roots |-> NoFile]
    /\ cstate = "spawn"
    /\ fr = <<>>
    /\ buckets = [k \in Sizes |-> <<>>]
    /\ estate = "none"
    /\ toEmit = {}
    /\ rstate = "stage"
    /\ sizeBucket = NoBucket
    /\ ctxDone = FALSE
    /\ emitted = 0

IdlePipe ==
    /\ listing = <<>> /\ wpos = <<>> /\ wstate = <<>>
    /\ fstate = <<>> /\ fheld = <<>>
    /\ cstate = "idle" /\ fr = <<>> /\ buckets = <<>>
    /\ estate = "none" /\ toEmit = {}
    /\ rstate = "idle" /\ sizeBucket = NoBucket
    /\ ctxDone = FALSE /\ emitted = 0

\* the signal goroutine: the first interrupt calls cancel()
CancelCtx ==
    /\ rstate # "idle"
    /\ ~ctxDone
    /\ ctxDone' = TRUE
    /\ UNCHANGED <<listing, wpos, wstate, fstate, fheld, cstate, fr, buckets,
                   estate, toEmit, rstate, sizeBucket, emitted, notPipe>>

\* compileDirResults' goroutine: wg.Add(1) and go for every dir; each
\* forwarder calls listDirFiles, which starts its walker
SpawnForwarders ==
    /\ cstate = "spawn"
    /\ cstate' = "wait"
    /\ fstate' = [r \in Roots |-> "recv"]
    /\ wstate' = [r \in Roots |-> "walking"]
    /\ UNCHANGED <<listing, wpos, fheld, fr, buckets, estate, toEmit, rstate,
                   sizeBucket, ctxDone, emitted, notPipe>>

\* walkDirFn: case ch <- fr, taken by the forwarder's range over dr
WalkSend(r) ==
    /\ wstate[r] = "walking"
    /\ wpos[r] < Len(listing[r])
    /\ fstate[r] = "recv"
    /\ wpos' = [wpos EXCEPT ![r] = @ + 1]
    /\ fheld' = [fheld EXCEPT ![r] = listing[r][wpos[r] + 1]]
    /\ fstate' = [fstate EXCEPT ![r] = "send"]
    /\ UNCHANGED <<listing, wstate, cstate, fr, buckets, estate, toEmit, rstate,
                   sizeBucket, ctxDone, emitted, notPipe>>

\* walkDirFn: case <-ctx.Done(): return fs.SkipAll ; then close(ch)
WalkSkipAll(r) ==
    /\ wstate[r] = "walking"
    /\ wpos[r] < Len(listing[r])
    /\ WalkerSeesDone
    /\ wstate' = [wstate EXCEPT ![r] = "done"]
    /\ UNCHANGED <<listing, wpos, fstate, fheld, cstate, fr, buckets, estate,
                   toEmit, rstate, sizeBucket, ctxDone, emitted, notPipe>>

\* fs.WalkDir returns at the end of the tree ; close(ch)
WalkEnd(r) ==
    /\ wstate[r] = "walking"
    /\ wpos[r] = Len(listing[r])
    /\ wstate' = [wstate EXCEPT ![r] = "done"]
    /\ UNCHANGED <<listing, wpos, fstate, fheld, cstate, fr, buckets, estate,
                   toEmit, rstate, sizeBucket, ctxDone, emitted, notPipe>>

\* the forwarder's select: case fr <- f, when the buffer has room
ForwardSend(r) ==
    /\ fstate[r] = "send"
    /\ Len(fr) < FrCapacity
    /\ fr' = Append(fr, fheld[r])
    /\ fheld' = [fheld EXCEPT ![r] = NoFile]
    /\ fstate' = [fstate EXCEPT ![r] = "recv"]
    /\ UNCHANGED <<listing, wpos, wstate, cstate, buckets, estate, toEmit,
                   rstate, sizeBucket, ctxDone, emitted, notPipe>>

\* the forwarder's select: case <-ctx.Done(): return ; wg.Done()
ForwardCancel(r) ==
    /\ fstate[r] = "send"
    /\ ctxDone
    /\ fheld' = [fheld EXCEPT ![r] = NoFile]
    /\ fstate' = [fstate EXCEPT ![r] = "done"]
    /\ UNCHANGED <<listing, wpos, wstate, cstate, fr, buckets, estate, toEmit,
                   rstate, sizeBucket, ctxDone, emitted, notPipe>>

\* the forwarder's range ends when dr is closed ; wg.Done()
ForwardEnd(r) ==
    /\ fstate[r] = "recv"
    /\ wstate[r] = "done"
    /\ fstate' = [fstate EXCEPT ![r] = "done"]
    /\ UNCHANGED <<listing, wpos, wstate, fheld, cstate, fr, buckets, estate,
                   toEmit, rstate, sizeBucket, ctxDone, emitted, notPipe>>

\* wg.Wait() returns ; defer close(fr)
CloseMerged ==
    /\ cstate = "wait"
    /\ WaitReturns
    /\ cstate' = "closed"
    /\ UNCHANGED <<listing, wpos, wstate, fstate, fheld, fr, buckets, estate,
                   toEmit, rstate, sizeBucket, ctxDone, emitted, notPipe>>

\* stageBuckets: one iteration of for fr := range fileResults
Drain ==
    /\ rstate = "stage"
    /\ fr # <<>>
    /\ buckets' =
          IF Head(fr).size < MinSize THEN buckets
          ELSE IF Contains(buckets[Head(fr).size], Head(fr).path) THEN buckets
          ELSE [buckets EXCEPT ![Head(fr).size] = Append(@, Head(fr).path)]
    /\ fr' = Tail(fr)
    /\ UNCHANGED <<listing, wpos, wstate, fstate, fheld, cstate, estate, toEmit,
                   rstate, sizeBucket, ctxDone, emitted, notPipe>>

\* the range ends on the closed, empty channel ; the emitter is started,
\* stageBuckets returns and run() starts ranging over buckets
DrainEnd ==
    /\ rstate = "stage"
    /\ fr = <<>>
    /\ cstate = "closed"
    /\ estate' = "emit"
    /\ toEmit' = Emittable(buckets)
    /\ rstate' = "recv"
    /\ UNCHANGED <<listing, wpos, wstate, fstate, fheld, cstate, fr, buckets,
                   sizeBucket, ctxDone, emitted, notPipe>>

\* the emitter's select: case possibleDuplicates <- v, taken by run()'s
\* range ; the map is ranged over in any order
EmitSend(k) ==
    /\ estate = "emit"
    /\ k \in toEmit
    /\ rstate = "recv"
    /\ sizeBucket' = [size |-> k, paths |-> buckets[k]]
    /\ rstate' = "process"
    /\ toEmit' = toEmit \ {k}
    /\ emitted' = emitted + 1
    /\ UNCHANGED <<listing, wpos, wstate, fstate, fheld, cstate, fr, buckets,
                   estate, ctxDone, notPipe>>

\* the emitter's select: case <-ctx.Done(): return ; close
EmitCancel ==
    /\ estate = "emit"
    /\ toEmit # {}
    /\ ctxDone
    /\ estate' = "done"
    /\ UNCHANGED <<listing, wpos, wstate, fstate, fheld, cstate, fr, buckets,
                   toEmit, rstate, sizeBucket, ctxDone, emitted, notPipe>>

\* the emitter's range is over ; close(possibleDuplicates)
EmitEnd ==
    /\ estate = "emit"
    /\ toEmit = {}
    /\ estate' = "done"
    /\ UNCHANGED <<listing, wpos, wstate, fstate, fheld, cstate, fr, buckets,
                   toEmit, rstate, sizeBucket, ctxDone, emitted, notPipe>>

\* run(): IndexesContext over the group and the handler calls; both return
\* (the files walked are regular files of the group's size, so selectDup's
\* guards pass)
ProcessBucket ==
    /\ rstate = "process"
    /\ rstate' = "recv"
    /\ sizeBucket' = NoBucket
    /\ UNCHANGED <<listing, wpos, wstate, fstate, fheld, cstate, fr, buckets,
                   estate, toEmit, ctxDone, emitted, notPipe>>

\* run(): the range over buckets ends on the closed channel ; return nil
RunReturn ==
    /\ rstate = "recv"
    /\ estate = "done"
    /\ rstate' = "returned"
    /\ UNCHANGED <<listing, wpos, wstate, fstate, fheld, cstate, fr, buckets,
                   estate, toEmit, sizeBucket, ctxDone, emitted, notPipe>>

(***************************************************************************)
(* IndexesContext with FilenameFn as compareFn, as run() calls it: what a  *)
(* comparison returns follows from the two files, unless opening, reading  *)
(* or the context fails.                                                   *)
(***************************************************************************)
\* equalFile when no read fails and ctx is not cancelled, every read
\* filling its buffer: from positions pa and pb on
RECURSIVE equalFileFrom(_, _, _, _)
equalFileFrom(a, b, pa, pb) ==
    LET k1 == Min(ChunkSize, Len(a) - pa)
        e1 == IF k1 = 0 THEN EOF ELSE Nil
        left == Len(b) - pb
        k2 == Min(k1, left)
        e2 == IF k1 = 0 \/ left >= k1 THEN Nil
              ELSE IF left > 0 THEN ErrUnexpectedEOF ELSE EOF
        r == equalFileStep(k1, e1, k2, e2,
                           SubSeq(a, pa + 1, pa + k1), SubSeq(b, pb + 1, pb + k2))
    IN  IF r = Continues THEN equalFileFrom(a, b, pa + k1, pb + k2) ELSE r

\* what Stat reports for an open regular file
FileInfoOf(f) ==
    [name |-> FileName(<<"a">>, f.pieces, <<".", "j">>), mtime |-> f.mtime,
     size |-> Len(f.content), dir |-> FALSE, symlink |-> FALSE]

\* FilenameFn(ctx, left, right) on two files that open
CompareFiles(f1, f2) ==
    FilenameFn(equalFileFrom(f1.content, f2.content, 0, 0),
               selectDup(FileInfoOf(f1), FileInfoOf(f2)))

\* r, cmpErr := cmp(row, col) as IndexesContext switches on it
OutcomeFrom(r) ==
    IF r.err = Nil THEN r.sel
    ELSE IF r.err = ErrImpossible THEN ErrImpossible
    ELSE ErrCompare

\* the outcome of comparing two files of the group
OutcomeOf(f1, f2) == OutcomeFrom(CompareFiles(f1, f2))

Outcome == OutcomeOf(items[row], items[col])

\* the files a group is made of: two contents of one size and a proper
\* prefix of the first; names "a.j" with no suffix, " (1)" or " (1) (99)"
CopyOne == [kind |-> "paren", digits |-> <<"1">>]

CopyMany == [kind |-> "paren", digits |-> <<"9", "9">>]

GroupFiles ==
    [content : {<<0, 1>>, <<1, 1>>},
     pieces : {<<>>, <<CopyOne>>, <<CopyOne, CopyMany>>},
     mtime : {0}]
    \cup {[content |-> <<0>>, pieces |-> <<>>, mtime |-> 1]}

IdleItems == items = <<>>

InitItems ==
    /\ InitIndexes
    /\ n <= MaxGroup
    /\ items \in [0..(n - 1) -> GroupFiles]

\* compareFn fails: os.Open, a read or the context (any pair), or the
\* errImpossible of selectDup (when the files give it)
ItemsCompareError ==
    /\ CompareError
    /\ \/ calls'[Len(calls')][3] = ErrCompare
       \/ calls'[Len(calls')][3] = Outcome

ItemsCompareNone == pc = "scan" /\ Outcome = None /\ CompareNone

ItemsCompareLeft == pc = "scan" /\ Outcome = Left /\ CompareLeft

ItemsCompareRight == pc = "scan" /\ Outcome = Right /\ CompareRight

(***************************************************************************)
(* Specifications                                                          *)
(***************************************************************************)
Init == InitIndexes /\ IdleOffset /\ IdleEqual /\ IdleSplit /\ IdleSelect
    /\ IdlePipe /\ IdleItems

Next ==
    \/ SkipComparison
    \/ CompareError
    \/ CompareNone
    \/ CompareLeft
    \/ CompareRight
    \/ Handle
    \/ Finish

Spec == Init /\ [][Next]_vars

InitOff == IdleIndexes /\ InitOffset /\ IdleEqual /\ IdleSplit /\ IdleSelect
    /\ IdlePipe /\ IdleItems

NextOff == VisitPair

SpecOffset == InitOff /\ [][NextOff]_vars

InitEq == IdleIndexes /\ IdleOffset /\ InitEqual /\ IdleSplit /\ IdleSelect
    /\ IdlePipe /\ IdleItems

NextEq ==
    \/ Cancel
    \/ CheckCtx
    \/ ReadA
    \/ ReadB
    \/ CompareChunks
    \/ FilenameFnReturn

SpecEqual == InitEq /\ [][NextEq]_vars

InitSp == IdleIndexes /\ IdleOffset /\ IdleEqual /\ InitSplit /\ IdleSelect
    /\ IdlePipe /\ IdleItems

NextSp == SplitCall

SpecSplit == InitSp /\ [][NextSp]_vars

InitSel == IdleIndexes /\ IdleOffset /\ IdleEqual /\ IdleSplit /\ InitSelect
    /\ IdlePipe /\ IdleItems

NextSel ==
    \/ SelectDupStatError
    \/ SelectDupCall

SpecSelect == InitSel /\ [][NextSel]_vars

InitP ==
    /\ IdleIndexes /\ IdleOffset /\ IdleEqual /\ IdleSplit /\ IdleSelect
    /\ InitPipe /\ IdleItems

Goroutines ==
    \/ SpawnForwarders
    \/ \E r \in Roots : WalkSend(r)
    \/ \E r \in Roots : WalkSkipAll(r)
    \/ \E r \in Roots : WalkEnd(r)
    \/ \E r \in Roots : ForwardSend(r)
    \/ \E r \in Roots : ForwardCancel(r)
    \/ \E r \in Roots : ForwardEnd(r)
    \/ CloseMerged
    \/ Drain
    \/ DrainEnd
    \/ \E k \in Sizes : EmitSend(k)
    \/ EmitCancel
    \/ EmitEnd
    \/ ProcessBucket
    \/ RunReturn

NextP == CancelCtx \/ Goroutines

SpecPipe == InitP /\ [][NextP]_vars

\* the scheduler runs a goroutine that can take a step
SpecPipeFair == SpecPipe /\ WF_vars(Goroutines)

InitIt ==
    /\ InitItems /\ IdleOffset /\ IdleEqual /\ IdleSplit /\ IdleSelect
    /\ IdlePipe

NextIt ==
    \/ SkipComparison
    \/ ItemsCompareError
    \/ ItemsCompareNone
    \/ ItemsCompareLeft
    \/ ItemsCompareRight
    \/ Handle
    \/ Finish

SpecItems == InitIt /\ [][NextIt]_vars

(***************************************************************************)
(* Helpers of the properties                                               *)
(***************************************************************************)
IsError(o) == o \notin {None, Left, Right}

Returned == pc \in {"handle", "done"}

\* the index a call decided, as a sequence of length 0 or 1
Decided(c) ==
    IF c[3] = Left THEN <<c[1]>>
    ELSE IF c[3] = Right THEN <<c[2]>>
    ELSE <<>>

RECURSIVE DecidedSeq(_)
DecidedSeq(s) ==
    IF s = <<>> THEN <<>>
    ELSE DecidedSeq(SubSeq(s, 1, Len(s) - 1)) \o Decided(s[Len(s)])

\* the equivalence relations over 0..k-1, k in MinN..MaxN, each as the
\* function that maps an index to the least member of its class
AllPartitions ==
    UNION {{f \in [0..(k - 1) -> 0..(k - 1)] :
               \A i \in 0..(k - 1) : f[i] <= i /\ f[f[i]] = f[i]} :
           k \in MinN..MaxN}

PartitionsOf(k) == {f \in AllPartitions : DOMAIN f = 0..(k - 1)}

NoErrorReturned == \A k \in 1..Len(calls) : ~IsError(calls[k][3])

\* every call so far answered as a comparator of relation cls answers:
\* no error, Left or Right exactly on the related pairs
Consistent(cls) ==
    /\ NoErrorReturned
    /\ \A k \in 1..Len(calls) :
          (calls[k][3] \in {Left, Right}) <=> (cls[calls[k][1]] = cls[calls[k][2]])

Survivors(cls, rep) ==
    {i \in 0..(n - 1) : cls[i] = rep /\ i \notin Range(duplicates)}

(***************************************************************************)
(* C1: the slice IndexesContext returns holds no index twice, so run()     *)
(* hands no index to the handler twice.                                    *)
(***************************************************************************)
C1_NoIndexTwice ==
    /\ \A i, j \in 1..Len(duplicates) :
          duplicates[i] = duplicates[j] => i = j
    /\ \A i, j \in 1..Len(handled) :
          handled[i] = handled[j] => i = j

(***************************************************************************)
(* C2: for every n in 2..MaxOffsetN the pairs visited so far in row-major  *)
(* order received slots inside [0, n(n-1)/2), all different, and the pair  *)
(* visited last received its rank in that order.                           *)
(***************************************************************************)
C2_OffsetBijection ==
    /\ oslots \subseteq 0..(MatrixSize(on) - 1)
    /\ Cardinality(oslots) = ocount
    /\ ocount > 0 => oslot = ocount - 1
    /\ (on = 6 /\ ocount = 6) => oslot = 5

C2_Witness ==
    /\ opc = "end"
    /\ on = MaxOffsetN
    /\ ocount = MatrixSize(on)
    /\ oslots = 0..(MatrixSize(on) - 1)

(***************************************************************************)
(* C3: when the pass has returned and every call answered as an error-free *)
(* comparator of an equivalence relation answers, each class of that       *)
(* relation has exactly one member that is not in the result.              *)
(***************************************************************************)
C3_OneSurvivorPerClass ==
    (Returned /\ NoErrorReturned) =>
        \A cls \in PartitionsOf(n) :
            Consistent(cls) =>
                \A rep \in {cls[i] : i \in 0..(n - 1)} :
                    Cardinality(Survivors(cls, rep)) = 1

C3_Witness ==
    /\ pc = "done"
    /\ n = 4
    /\ Len(duplicates) = 2
    /\ \E cls \in PartitionsOf(n) :
          /\ Consistent(cls)
          /\ Cardinality({i \in 0..(n - 1) : cls[i] = 0}) = 3
          /\ Cardinality(Survivors(cls, 0)) = 1

(***************************************************************************)
(* C4 as stated: the returned slice is in ascending index order.           *)
(***************************************************************************)
C4_AscendingOrder ==
    \A i, j \in 1..Len(duplicates) :
        i < j => duplicates[i] <= duplicates[j]

(***************************************************************************)
(* C4 amended: the returned slice lists the decided indexes in the order   *)
(* of the comparisons that decided them, the comparisons run in row-major  *)
(* order, and the handler has been given a prefix of the slice.            *)
(***************************************************************************)
C4_DecisionOrder ==
    /\ duplicates = DecidedSeq(calls)
    /\ \A k \in 1..(Len(calls) - 1) :
          Offset(n, calls[k][1], calls[k][2])
            < Offset(n, calls[k + 1][1], calls[k + 1][2])
    /\ handled = SubSeq(duplicates, 1, hi - 1)

C4_Witness ==
    /\ pc = "done"
    /\ duplicates = <<1, 0>>
    /\ handled = <<1, 0>>

(***************************************************************************)
(* C5: after a call on (row, col) returned Left, row is in the result and  *)
(* no later call has row as either argument.                               *)
(***************************************************************************)
C5_LeftDecidesRow ==
    \A k \in 1..Len(calls) :
        calls[k][3] = Left =>
            /\ calls[k][1] \in Range(duplicates)
            /\ \A l \in (k + 1)..Len(calls) :
                  /\ calls[l][1] # calls[k][1]
                  /\ calls[l][2] # calls[k][1]

C5_Witness ==
    /\ pc = "done"
    /\ n = 4
    /\ Len(calls) >= 4
    /\ calls[2] = <<0, 2, Left>>
    /\ skipMatrix[Offset(n, 0, 3)]

(***************************************************************************)
(* C6: after a call on (row, col) returned Right, col is in the result and *)
(* no later call has col as either argument.                               *)
(***************************************************************************)
C6_RightDecidesCol ==
    \A k \in 1..Len(calls) :
        calls[k][3] = Right =>
            /\ calls[k][2] \in Range(duplicates)
            /\ \A l \in (k + 1)..Len(calls) :
                  /\ calls[l][1] # calls[k][2]
                  /\ calls[l][2] # calls[k][2]

(***************************************************************************)
(* C7: a step in which compareFn returns an error adds no index, marks no  *)
(* slot and moves on exactly as a step that returned None moves on.        *)
(***************************************************************************)
C7_ErrorTreatedAsNone ==
    [][(/\ Len(calls') = Len(calls) + 1
        /\ IsError(calls'[Len(calls')][3]))
       => (/\ duplicates' = duplicates
           /\ skipMatrix' = skipMatrix
           /\ row' = ContinueTo.row
           /\ col' = ContinueTo.col
           /\ pc' = ContinueTo.pc)]_vars

(***************************************************************************)
(* C8: an errImpossible out of selectDup is logged like any other error    *)
(* and the pass goes on; the run does not crash.                           *)
(***************************************************************************)
C8_ImpossibleErrorReported ==
    /\ pc # "crashed"
    /\ Len(log) = Cardinality({k \in 1..Len(calls) : IsError(calls[k][3])})

(***************************************************************************)
(* C9: equalFile returns (true, nil) only when both streams were read to   *)
(* their end and hold the same bytes, and (false, nil) only when the       *)
(* contents differ.                                                        *)
(***************************************************************************)
C9_EqualOnlyIfIdentical ==
    (epc \in {"ret", "done"} /\ result.err = Nil) =>
        /\ result.eq => (fa = fb /\ posA = Len(fa) /\ posB = Len(fb))
        /\ ~result.eq => fa # fb

(***************************************************************************)
(* C10 as stated: once cancellation has been requested equalFile returns   *)
(* the cancellation error and never a verdict.                             *)
(***************************************************************************)
C10_NoVerdictAfterCancel ==
    (epc \in {"ret", "done"} /\ cancelled) => result = [eq |-> FALSE, err |-> ErrCanceled]

(***************************************************************************)
(* C10 amended: after the cancellation equalFile starts at most one more   *)
(* chunk read on each stream, and once a select at the top of the loop has *)
(* seen the cancellation it has returned the cancellation error and no     *)
(* verdict.                                                                *)
(***************************************************************************)
C10_CancelWithinOneChunk ==
    /\ readsAfterCancel.a <= 1
    /\ readsAfterCancel.b <= 1
    /\ seenCancel => (epc \in {"ret", "done"} /\ result = [eq |-> FALSE, err |-> ErrCanceled])

C10_Witness ==
    /\ epc = "ret"
    /\ posA > 0
    /\ posA < Len(fa)
    /\ readsAfterCancel = [a |-> 1, b |-> 1]
    /\ result = [eq |-> FALSE, err |-> ErrCanceled]

(***************************************************************************)
(* C11 as stated: when the cancellation was requested before equalFile     *)
(* performed any read, equalFile returns (false, ctx.Err()) with no read   *)
(* on either stream and FilenameFn returns None with that error.           *)
(***************************************************************************)
C11_CancelBeforeAnyRead ==
    (epc \in {"ret", "done"}
       /\ cancelAt \in {"beforeFirstCheck", "beforeFirstRead"}) =>
        /\ result = [eq |-> FALSE, err |-> ErrCanceled]
        /\ readsAfterCancel = [a |-> 0, b |-> 0]
        /\ posA = 0 /\ posB = 0
        /\ epc = "done" => fnRet = [sel |-> None, err |-> ErrCanceled]

(***************************************************************************)
(* C11 amended: when the cancellation was requested before equalFile's     *)
(* first select on ctx.Done() (in particular before the comparison         *)
(* started), equalFile returns (false, ctx.Err()) with no read on either   *)
(* stream and FilenameFn returns None with that error.                     *)
(***************************************************************************)
C11_CancelBeforeFirstCheck ==
    (epc \in {"ret", "done"} /\ cancelAt = "beforeFirstCheck") =>
        /\ result = [eq |-> FALSE, err |-> ErrCanceled]
        /\ readsAfterCancel = [a |-> 0, b |-> 0]
        /\ posA = 0 /\ posB = 0
        /\ epc = "done" => fnRet = [sel |-> None, err |-> ErrCanceled]

C11_Witness ==
    /\ epc = "done"
    /\ cancelAt = "beforeFirstCheck"
    /\ fa = fb /\ Len(fa) = MaxLen
    /\ posA = 0 /\ posB = 0
    /\ fnRet = [sel |-> None, err |-> ErrCanceled]

(***************************************************************************)
(* Claims about selectDup and SplitFileBaseName                            *)
(***************************************************************************)
AllDigits(str) == str # <<>> /\ \A i \in 1..Len(str) : str[i] \in Digits

\* the five rules in order, read on the parts SplitFileBaseName gives
ReferenceOrder(f1, f2) ==
    LET s1 == SplitFileBaseName(f1.name)
        s2 == SplitFileBaseName(f2.name)
    IN  IF s1.counter # s2.counter
        THEN (IF s1.counter > s2.counter THEN Left ELSE Right)
        ELSE IF (s1.ext = <<>>) # (s2.ext = <<>>)
        THEN (IF s1.ext = <<>> THEN Left ELSE Right)
        ELSE IF AllDigits(s1.prefix) # AllDigits(s2.prefix)
        THEN (IF AllDigits(s1.prefix) THEN Left ELSE Right)
        ELSE IF f1.mtime # f2.mtime
        THEN (IF f1.mtime > f2.mtime THEN Left ELSE Right)
        ELSE Right

\* C12: whenever selectDup returns a selection without an error, it is the
\* file the reference ordering names: larger copy counter, else the empty
\* extension, else the one prefix made of decimal digits only, else the
\* newer modification time, else the second argument.
C12_ReferenceOrdering ==
    (sdpc = "ret" /\ sdRet.err = Nil) =>
        sdRet.sel = ReferenceOrder(sfi1, sfi2)

\* what the stated rules add for one stripped suffix, N read as a number
StatedIncrement(p) ==
    LET N == DecimalValue(p.digits)
    IN  CASE p.kind = "copy"  -> 1
          [] p.kind = "copyN" -> IF N = 0 THEN 1 ELSE IF N = 1 THEN 2 ELSE N
          [] p.kind = "paren" -> IF N = 0 THEN 1 ELSE N

OutOfRange(p) == p.kind \in {"copyN", "paren"} /\ DecimalValue(p.digits) > MaxInt

\* the same, with a number that does not fit an int counted as 0
LenientIncrement(p) == IF OutOfRange(p) THEN 1 ELSE StatedIncrement(p)

\* the chain as the patterns read it, the platform pattern first: " - Copy"
\* followed by " (N)" is the one suffix " - Copy (N)"
RECURSIVE Canonical(_)
Canonical(pieces) ==
    IF pieces = <<>> THEN <<>>
    ELSE IF /\ Len(pieces) >= 2
            /\ pieces[Len(pieces)].kind = "paren"
            /\ pieces[Len(pieces) - 1].kind = "copy"
    THEN Append(Canonical(DropLast(pieces, 2)),
                [kind |-> "copyN", digits |-> pieces[Len(pieces)].digits])
    ELSE Append(Canonical(DropLast(pieces, 1)), pieces[Len(pieces)])

\* the suffixes stripped from the end of the chain: all after the last
\* piece that no pattern matches
RECURSIVE StrippedOf(_)
StrippedOf(pieces) ==
    IF pieces = <<>> \/ pieces[Len(pieces)].kind = "plain" THEN <<>>
    ELSE Append(StrippedOf(DropLast(pieces, 1)), pieces[Len(pieces)])

Stripped == StrippedOf(Canonical(spieces))

RECURSIVE SumOf(_)
SumOf(nums) == IF nums = <<>> THEN 0 ELSE Head(nums) + SumOf(Tail(nums))

StatedCounter ==
    SumOf([i \in 1..Len(Stripped) |-> StatedIncrement(Stripped[i])])

LenientCounter ==
    SumOf([i \in 1..Len(Stripped) |-> LenientIncrement(Stripped[i])])

StatedPrefix ==
    FileName(sbase, DropLast(Canonical(spieces), Len(Stripped)), <<>>)

Degenerate == StatedPrefix = <<>> /\ sext = <<>>

\* C13: SplitFileBaseName strips every chained copy suffix from the end of
\* the name without its extension and returns the original prefix, the sum
\* of the stated increments and the extension; when prefix and extension
\* would both be empty it returns the whole name with counter 0.
C13_SplitStripsAndSums ==
    spc = "ret" =>
        sres = IF Degenerate
               THEN [prefix |-> FileName(sbase, spieces, sext), counter |-> 0, ext |-> <<>>]
               ELSE [prefix |-> StatedPrefix, counter |-> StatedCounter, ext |-> sext]

\* C14: when a stripped suffix holds digits that do not fit an int, the
\* suffix counts exactly 1 (N taken as 0) and the counter is not negative.
C14_OutOfRangeCountsOne ==
    (/\ spc = "ret"
     /\ ~Degenerate
     /\ \E i \in 1..Len(Stripped) : OutOfRange(Stripped[i])) =>
        /\ sres.counter = LenientCounter
        /\ sres.counter >= 0

(***************************************************************************)
(* C15: without -x no file is ever removed: deleteHandler is never called, *)
(* os.Remove removes nothing, and every duplicate handled was printed.     *)
(***************************************************************************)
C15_DryRunRemovesNothing ==
    ~execute =>
        /\ removed = {}
        /\ deleteCalls = <<>>
        /\ printed = handled

C15_Witness ==
    /\ ~execute
    /\ pc = "done"
    /\ Len(handled) >= 2
    /\ printed = handled

(***************************************************************************)
(* C17: every marked slot of the skip matrix is the slot of a pair (r, c)  *)
(* whose row index r is in the result already.                             *)
(***************************************************************************)
C17_MarkedRowDecided ==
    \A r \in 0..(n - 2) : \A c \in (r + 1)..(n - 1) :
        (pc # "idle" /\ skipMatrix[Offset(n, r, c)]) => r \in Range(duplicates)

C17_Witness ==
    /\ pc = "scan"
    /\ n = 4
    /\ \E k \in 1..Len(calls) : calls[k][3] = Right
    /\ \E k \in 1..Len(calls) : calls[k][3] = Left
    /\ Cardinality({i \in DOMAIN skipMatrix : skipMatrix[i]}) >= 3

(***************************************************************************)
(* C19: whatever errors the comparator returned, if it answered Left or    *)
(* Right only on pairs of an equivalence relation, every class of that     *)
(* relation keeps at least one member that is not in the result.           *)
(***************************************************************************)
DecidedPairs ==
    {<<calls[k][1], calls[k][2]>> :
        k \in {j \in 1..Len(calls) : calls[j][3] \in {Left, Right}}}

DecidesWithin(cls) == \A p \in DecidedPairs : cls[p[1]] = cls[p[2]]

C19_NeverAllCopies ==
    LET pairs == DecidedPairs
        alive == (0..(n - 1)) \ Range(duplicates)
    IN  \A cls \in PartitionsOf(n) :
            (\A p \in pairs : cls[p[1]] = cls[p[2]]) =>
                \A i \in 0..(n - 1) : \E j \in alive : cls[j] = cls[i]

C19_Witness ==
    /\ pc = "done"
    /\ n = 4
    /\ \E k \in 1..Len(calls) : IsError(calls[k][3])
    /\ Cardinality(Range(duplicates)) = 3
    /\ \E cls \in PartitionsOf(n) :
          /\ DecidesWithin(cls)
          /\ \A i \in 0..(n - 1) : cls[i] = 0
          /\ Cardinality(Survivors(cls, 0)) = 1

(***************************************************************************)
(* Claims about the pipeline of run()                                      *)
(***************************************************************************)
Scanned == UNION {{listing[r][i] : i \in 1..wpos[r]} : r \in Roots}

ForwardersDone == \A r \in Roots : fstate[r] = "done"

WalkersDone == \A r \in Roots : wstate[r] = "done"

AllExited ==
    /\ WalkersDone
    /\ ForwardersDone
    /\ cstate = "closed"
    /\ estate = "done"
    /\ rstate = "returned"

\* C16: every group run() receives from stageBuckets has at least two
\* paths, no path twice, every path scanned with the size of the group's
\* key, and that size is at least MinSize; no bucket is kept for a size
\* below MinSize.
C16_GroupsWellFormed ==
    /\ rstate = "process" =>
          /\ Len(sizeBucket.paths) >= 2
          /\ \A i, j \in 1..Len(sizeBucket.paths) :
                sizeBucket.paths[i] = sizeBucket.paths[j] => i = j
          /\ \A i \in 1..Len(sizeBucket.paths) :
                [path |-> sizeBucket.paths[i], size |-> sizeBucket.size] \in Scanned
          /\ sizeBucket.size >= MinSize
    /\ rstate # "idle" =>
          \A k \in DOMAIN buckets : k < MinSize => buckets[k] = <<>>

C16_Witness ==
    /\ rstate = "process"
    /\ sizeBucket = [size |-> MinSize, paths |-> <<"a", "b">>]
    /\ \A r \in Roots : [path |-> "a", size |-> MinSize] \in Range(listing[r])
    /\ [path |-> "e", size |-> MinSize - 1] \in Scanned
    /\ ~ctxDone

\* C18: a group is sent, compared or handled only after the merged stream
\* is closed and every forwarder has finished.
C18_FullBarrier ==
    (emitted > 0 \/ estate # "none" \/ rstate \in {"recv", "process", "returned"}) =>
        /\ cstate = "closed"
        /\ ForwardersDone
        /\ fr = <<>>

C18_Witness ==
    /\ rstate = "process"
    /\ emitted = 2
    /\ \A r \in Roots : wpos[r] = MaxFiles
    /\ ~ctxDone

\* C20: with the goroutines scheduled fairly, cancelled at any point or
\* never, every walker, every forwarder, the closer and the emitter exit
\* and run() returns, for good; once cancelled, the walkers come to a stop.
C20_EveryGoroutineExits ==
    /\ (rstate # "idle") ~> AllExited
    /\ [](AllExited => []AllExited)
    /\ (ctxDone ~> WalkersDone)

C20_Witness ==
    /\ AllExited
    /\ ctxDone
    /\ \A r \in Roots : wpos[r] < Len(listing[r])
    /\ emitted = 0

(***************************************************************************)
(* C21: with selectDup as the selector and errors on any comparisons, a    *)
(* file whose copy counter, as the suffix rules count it, is strictly      *)
(* smaller than that of every other file of the same content is never in   *)
(* the result; and when no comparison failed, each class of identical      *)
(* files has one member outside the result, of the least counter.          *)
(***************************************************************************)
CounterOf(f) ==
    LET stripped == StrippedOf(Canonical(f.pieces))
    IN  SumOf([i \in 1..Len(stripped) |-> StatedIncrement(stripped[i])])

Identical(i) == {j \in 0..(n - 1) : items[j].content = items[i].content}

StrictlySmallest(i) ==
    \A j \in Identical(i) \ {i} : CounterOf(items[i]) < CounterOf(items[j])

C21_SmallestCounterKept ==
    pc # "idle" =>
        /\ \A i \in 0..(n - 1) :
              StrictlySmallest(i) => i \notin Range(duplicates)
        /\ (Returned /\ NoErrorReturned) =>
              \A i \in 0..(n - 1) :
                 LET alive == Identical(i) \ Range(duplicates)
                 IN  /\ Cardinality(alive) = 1
                     /\ \A k \in alive : \A j \in Identical(i) :
                           CounterOf(items[k]) <= CounterOf(items[j])

====
